---- MODULE Spec2Model ----
(***************************************************************************)
(* The live-media core of the engine: the video Track's GOP-aware cyclic   *)
(* frame cache (track/video.go), its NALU ingest and AVCC completion, and  *)
(* the in-memory MPEG-TS packetizer (MemoryTs).                            *)
(***************************************************************************)
EXTENDS Integers, Sequences, FiniteSets, TLC

\* ---------------------------------------------------------------- bounds
\* Slots of the ring buffer a Track starts with (Media.Init).
InitSize == 12
\* Frames with payload the writer ingests into a ring of InitSize slots; a ring
\* created at the ceiling gets RingCeiling more, enough to wrap around once.
MaxFrames == 12

\* Access units ingested as Annex-B bytes in one run of the NALU specification
NalFrames == 1
\* Spans of one Annex-B input, and bytes of one span
MaxSpans == 3
MaxSpanLen == 2
\* WriteAVCC calls made on one UnknowVideo
MaxUnknowCalls == 4

\* ------------------------------------------------------ program constants
\* video.go:38  l := t.Size - t.GOP - 5
GopMargin == 5
\* video.go:38  l > 5
ShrinkThreshold == 5
\* video.go:129 vt.Size < 256
RingCeiling == 256
\* video.go:130 util.NewRing(5)
GrowBy == 5
\* The reader tasks (one Play call each).
Readers == {"r1"}

\* part_000:37 mpegts.TS_PACKET_SIZE
TS_PACKET_SIZE == 188
\* part_000:61 frame.ContinuityCounter % 16
CounterModulus == 16
\* part_000:28 PacketStartCodePrefix != 0x000001
StartCode == 1
\* WritePESPacket is called while the output list holds fewer TS packets
MaxPackets == 18

\* video.go:19, 119 the length prefix of an AVCC NALU, in bytes
NaluLenSize == 4
\* codec.NALU_Delimiter1 and codec.NALU_Delimiter2
NALU_Delimiter1 == <<0, 0, 1>>
NALU_Delimiter2 == <<0, 0, 0, 1>>
\* codec.CodecID_H264 and codec.CodecID_H265
CodecIDs == {7, 12}
\* The bytes spans are made of
SpanBytes == {0, 1}
\* AVCC frames handed to WriteAVCC: two NALUs; a second NALU declaring 5
\* bytes where 2 are left; a first NALU declaring 9 bytes where 1 is left; a
\* NALU followed by two stray bytes; a header alone
AvccFrames ==
  {<<23, 1, 0, 0, 0>> \o <<0, 0, 0, 1, 101>> \o <<0, 0, 0, 2, 1, 2>>,
   <<23, 1, 0, 0, 0>> \o <<0, 0, 0, 1, 101>> \o <<0, 0, 0, 5, 1, 2>>,
   <<39, 1, 0, 0, 33>> \o <<0, 0, 0, 9, 65>>,
   <<39, 1, 0, 0, 0>> \o <<0, 0, 0, 1, 65>> \o <<0, 0>>,
   <<39, 1, 0, 0, 0>>}
\* The first two bytes of the video tags handed to UnknowVideo: frame type
\* and codec id, then the packet type. Sequence headers of H264 (7), H265 (12)
\* and a codec without a track (2); a keyframe and an inter frame of H264
VideoTags == {<<23, 0>>, <<28, 0>>, <<18, 0>>, <<23, 1>>, <<39, 1>>}
\* pts and dts of an ingest call, in 90 kHz ticks: equal, a composition offset
\* of 33 ms, one that does not fit three bytes, and dts after pts
TimePairs == {<<0, 0>>, <<3000, 0>>, <<1509949530, 0>>, <<0, 3000>>}

\* part_000:128 the ADTS header, ts.Get(7)
ADTSLen == 7
\* Byte lengths of audio access units (AUList.ByteLength): one that fills a TS
\* packet, the usual 1024, and the two around the 16-bit range of the field
AuLengths == {162, 1024, 65520, 65521}
\* Parameter sets handed to WriteVideoFrame: how many, and their Annex-B length
ParamSets == {[n |-> 2, len |-> 30], [n |-> 3, len |-> 40]}
\* Annex-B byte lengths of video frames (frame.GetAnnexB()), up to the range
\* of the 16-bit field and past it
FrameLens == {138, 65486, 65516, 65517}

\* The elementary streams muxed (MpegtsPESFrame.Pid)
PIDs == {256, 257}
\* PacketStartCodePrefix values tried: the start code and another
Prefixes == {StartCode, 0}
\* PesHeaderDataLength: PTS only (audio), PTS and DTS (video)
HeaderDataLengths == {5, 10}
\* Total bytes of packet.Buffers tried: none, less than one TS packet, the
\* sizes around one packet's capacity, and several packets' worth
PayloadSizes == {0, 100, 157, 164, 169, 200, 400}

VARIABLES
  \* util.Ring: the slots of the writer's ring, and the rings cut off from it.
  \* Slot ids are 1..Len(IFrame).
  order, unlinked,
  \* AVFrame fields of each slot
  IFrame, SeqInTrack, canRead, hasRaw,
  \* Video / RingBuffer fields
  Ring, IDRing, Size, GOP, idrCount, MoveCount,
  \* the writer's position in its ingest/flush cycle
  wpc,
  \* the stream fed to the Track: frames it sends, least distance of its keyframes
  budget, gap,
  \* history: MoveCount of the last keyframe ingested (-1: none), whether all
  \* keyframes so far were at least 6 frames apart, the last ring operation of
  \* the writer, the slots it unlinked, and whether Flush ever let the only
  \* resident keyframe be overwritten because the ring was at its ceiling
  lastKey, spaced, lastOp, removed, ceilingHit,
  \* readers: position in Play, cursor (vr.Ring), and the sequence number of
  \* the Frame last handed to the callback (-1: none yet)
  rpc, cur, lastSeq,
  \* whether the stream has reported an error (Stream.Err() != nil); per
  \* reader: the slot of the Frame last handed to the callback (0: none), a bit
  \* flipped at each delivery, and whether the callback has returned an error
  streamErr, lastSlot, tick, cbFailed,
  \* MemoryTs: the continuity counter of each PID's MpegtsPESFrame, the number
  \* of TS packets in the output list (BLL), and of the latest WritePESPacket
  \* call: its arguments, the packets it pushed and the error it returned
  cc, bll, call, pkts, err,
  \* the PES packet built by the latest call, if that was WriteAudioFrame or
  \* WriteVideoFrame: header fields and the payload buffers, each a tag and a
  \* byte length
  packet,
  \* history: TS packets ever pushed per PID
  sent,
  \* config.Global.EnableAVCC, config.Global.EnableFLV and the Track's CodecID
  EnableAVCC, EnableFLV, CodecID,
  \* the Frame being assembled (Ring.Value) and the Frame the latest Flush
  \* inserted: NALUs, memoized AVCC bytes, whether the FLV tag is built, times
  Value, Last,
  \* the Annex-B bytes of the ingest call since the last Flush and the spans
  \* they were composed of
  input, spans,
  \* the Frame a fresh Track assembles when WriteAVCC is fed Last's AVCC bytes
  copy,
  \* the ingest call since the last Flush: which entry point ("none",
  \* "annexb", "avcc"), whether WriteAVCC logged its length error, and whether
  \* a call before the last Flush did
  entry,
  \* UnknowVideo: the concrete track it dispatches to ("nil" until selected),
  \* its Name, the WriteAVCC calls handed to the concrete track, the number of
  \* calls dropped, and the latest call
  VideoTrack, Name, delegated, dropped, uvcall

ringVars == <<order, unlinked, IFrame, SeqInTrack, canRead, hasRaw, Ring, IDRing, Size, GOP,
              idrCount, MoveCount, wpc, budget, gap, lastKey, spaced, lastOp,
              removed, ceilingHit>>
readerVars == <<rpc, cur, lastSeq, streamErr, lastSlot, tick, cbFailed>>
tsVars == <<cc, bll, call, pkts, err, packet, sent>>
nalVars == <<EnableAVCC, EnableFLV, CodecID, Value, Last, input, spans, copy, entry>>
unknowVars == <<VideoTrack, Name, delegated, dropped, uvcall>>
vars == <<ringVars, readerVars, tsVars, nalVars, unknowVars>>

\* ------------------------------------------------------------- util.Ring
\* A ring of linked slots is listed as the sequence of its slot ids in next
\* order (cyclically: the last one's next is the first). `order` lists the ring
\* the write cursor is on, `unlinked` the rings Unlink has cut off, which live
\* on for as long as a cursor refers to them.
Range(q) == {q[i] : i \in 1..Len(q)}

PosIn(q, s) == CHOOSE i \in 1..Len(q) : q[i] = s

\* the slots after r, in next order, ending with r itself
AfterIn(q, r) ==
  LET i == PosIn(q, r) IN SubSeq(q, i + 1, Len(q)) \o SubSeq(q, 1, i)

\* NewRing(n): n fresh slots first .. first+n-1
NewRing(first, n) == [i \in 1..n |-> first + i - 1]

\* r.Link(s) for a ring s that r is not on: s's slots follow r
LinkIn(q, r, s) ==
  LET i == PosIn(q, r) IN SubSeq(q, 1, i) \o s \o SubSeq(q, i + 1, Len(q))

\* r.Unlink(n), n > 0, is r.Link(r.Move(n+1)): the n mod Len slots after r
\* leave the ring. What stays, in next order:
UnlinkKept(q, r, n) ==
  LET a == AfterIn(q, r) IN SubSeq(a, (n % Len(q)) + 1, Len(q))

\* and the ring Unlink returns, which Do then visits: the slots cut off, or
\* (n a multiple of the ring's length) the whole unchanged ring
UnlinkGone(q, r, n) ==
  LET a == AfterIn(q, r)
  IN  IF n % Len(q) = 0 THEN a ELSE SubSeq(a, 1, n % Len(q))

\* s.Next()
NextOf(ord, unl, s) ==
  LET q == IF s \in Range(ord) THEN ord
           ELSE unl[CHOOSE k \in 1..Len(unl) : s \in Range(unl[k])]
  IN  q[(PosIn(q, s) % Len(q)) + 1]

\* ------------------------------------------------------- bytes and NALUs
\* bytes.Index: the position of the first occurrence of sep in b, 0 if none
IndexOf(b, sep) ==
  LET hits == {i \in 1..(Len(b) - Len(sep) + 1) :
                 SubSeq(b, i, i + Len(sep) - 1) = sep}
  IN  IF hits = {} THEN 0 ELSE CHOOSE i \in hits : \A j \in hits : i <= j

\* bytes.Cut
Cut(b, sep) ==
  LET i == IndexOf(b, sep)
  IN  IF i = 0 THEN [before |-> b, after |-> <<>>, found |-> FALSE]
      ELSE [before |-> SubSeq(b, 1, i - 1),
            after |-> SubSeq(b, i + Len(sep), Len(b)), found |-> TRUE]

\* util.PutBE: v in n bytes, most significant first (bits above 8n dropped)
PutBE(n, v) == [i \in 1..n |-> (v \div (256 ^ (n - i))) % 256]

RECURSIVE ReadBE(_)
\* util.ReadBE: the number whose big-endian bytes are b
ReadBE(b) ==
  IF b = <<>> THEN 0
  ELSE 256 * ReadBE(SubSeq(b, 1, Len(b) - 1)) + b[Len(b)]

RECURSIVE BitOr(_, _)
\* the | of two bytes
BitOr(a, b) ==
  IF a = 0 THEN b
  ELSE IF b = 0 THEN a
  ELSE 2 * BitOr(a \div 2, b \div 2) + (IF a % 2 = 1 \/ b % 2 = 1 THEN 1 ELSE 0)

\* (PTS - DTS) / 90 in uint32 arithmetic (video.go:113). When DTS is the
\* larger the difference wraps to 2^32 + PTS - DTS, and 2^32 = 90 * 47721858
\* + 76, so the quotient is 47721858 + floor((76 + PTS - DTS) / 90).
Cts32(pts, dts) ==
  IF pts >= dts THEN (pts - dts) \div 90
  ELSE 47721858 + ((76 + pts - dts) \div 90)

\* A Frame after Reset
EmptyValue ==
  [Raw |-> <<>>, AVCC |-> <<>>, FLV |-> FALSE, PTS |-> 0, DTS |-> 0]

EmptyCopy ==
  [done |-> FALSE, Raw |-> <<>>, AVCC |-> <<>>, PTS |-> 0, DTS |-> 0,
   err |-> FALSE]

RECURSIVE writeAnnexBSlice(_, _)
\* Video.writeAnnexBSlice: the Frame's NALU list after the call on annexb.
\* vt.WriteSlice is Media.WriteSlice, which appends the slice to Value.Raw
writeAnnexBSlice(raw, annexb) ==
  IF annexb = <<>> THEN raw
  ELSE LET c == Cut(annexb, NALU_Delimiter1)
       IN  IF ~c.found THEN Append(raw, annexb)
           ELSE writeAnnexBSlice(IF c.before # <<>> THEN Append(raw, c.before)
                                 ELSE raw, c.after)

RECURSIVE WriteAnnexBFrame(_, _, _, _)
\* The loop of Video.WriteAnnexB on the Frame v
WriteAnnexBFrame(v, pts, dts, frame) ==
  IF frame = <<>> THEN v
  ELSE LET c == Cut(frame, NALU_Delimiter2)
       IN  IF ~c.found
             THEN LET raw == writeAnnexBSlice(v.Raw, frame)
                  IN  [v EXCEPT !.Raw = raw,
                                !.PTS = IF raw # <<>> THEN pts ELSE @,
                                !.DTS = IF raw # <<>> THEN dts ELSE @]
             ELSE WriteAnnexBFrame(
                    [v EXCEPT !.Raw = IF c.before # <<>>
                                        THEN writeAnnexBSlice(@, c.before) ELSE @],
                    pts, dts, c.after)

RECURSIVE AppendNalus(_, _)
\* Video.Flush, lines 116-119: each NALU behind its 4-byte length
AppendNalus(avcc, raw) ==
  IF raw = <<>> THEN avcc
  ELSE AppendNalus(avcc \o PutBE(NaluLenSize, Len(raw[1])) \o raw[1], Tail(raw))

CompleteAVCC_FlagsSwapped(v, codec, key) ==
  LET b0 == BitOr(codec, IF key THEN 32 ELSE 16)
  IN  AppendNalus(<<b0, 1>> \o PutBE(3, Cts32(v.PTS, v.DTS)), v.Raw)

\* Video.Flush, lines 106-119: the AVCC bytes built for the Frame v
CompleteAVCC(v, codec, key) ==
  LET b0 == BitOr(codec, IF key THEN 16 ELSE 32)
  IN  AppendNalus(<<b0, 1>> \o PutBE(3, Cts32(v.PTS, v.DTS)), v.Raw)

RECURSIVE ReadNalus_ShortEnd(_, _, _)
ReadNalus_ShortEnd(raw, nalus, size) ==
  IF Len(nalus) > size
    THEN LET nalulen == ReadBE(SubSeq(nalus, 1, size))
             end == nalulen
         IN  IF Len(nalus) >= end
               THEN ReadNalus_ShortEnd(Append(raw, SubSeq(nalus, size + 1, end)),
                                       SubSeq(nalus, end + 1, Len(nalus)), size)
               ELSE [Raw |-> raw, err |-> TRUE]
    ELSE [Raw |-> raw, err |-> FALSE]

RECURSIVE ReadNalus_TakesRest(_, _, _)
ReadNalus_TakesRest(raw, nalus, size) ==
  IF Len(nalus) > size
    THEN LET nalulen == ReadBE(SubSeq(nalus, 1, size))
             end == nalulen + size
         IN  IF Len(nalus) >= end
               THEN ReadNalus_TakesRest(Append(raw, SubSeq(nalus, size + 1, end)),
                                        SubSeq(nalus, end + 1, Len(nalus)), size)
               ELSE [Raw |-> Append(raw, SubSeq(nalus, size + 1, Len(nalus))),
                     err |-> TRUE]
    ELSE [Raw |-> raw, err |-> FALSE]

RECURSIVE ReadNalus(_, _, _)
\* The loop of Video.WriteAVCC over nalus = frame[5:]: the NALUs appended and
\* whether the length error was logged
ReadNalus(raw, nalus, size) ==
  IF Len(nalus) > size
    THEN LET nalulen == ReadBE(SubSeq(nalus, 1, size))
             end == nalulen + size
         IN  IF Len(nalus) >= end
               THEN ReadNalus(Append(raw, SubSeq(nalus, size + 1, end)),
                              SubSeq(nalus, end + 1, Len(nalus)), size)
               ELSE [Raw |-> raw, err |-> TRUE]
    ELSE [Raw |-> raw, err |-> FALSE]

\* The caller's Annex-B bytes: spans, an optional start code in front and a
\* start code of d[k] bytes between span k and span k + 1
Delimiter(n) ==
  IF n = 3 THEN NALU_Delimiter1 ELSE IF n = 4 THEN NALU_Delimiter2 ELSE <<>>

RECURSIVE JoinSpans(_, _)
JoinSpans(sp, d) ==
  IF sp = <<>> THEN <<>>
  ELSE IF Len(sp) = 1 THEN sp[1]
  ELSE sp[1] \o Delimiter(d[1]) \o JoinSpans(Tail(sp), Tail(d))

SeqsUpTo(S, lo, hi) == UNION {[1..n -> S] : n \in lo..hi}

SpanSet == SeqsUpTo(SpanBytes, 1, MaxSpanLen)

\* ----------------------------------------------------------------- Init
InitRing(n) ==
  /\ order = NewRing(1, n)
  /\ unlinked = <<>>
  /\ IFrame = [i \in 1..n |-> FALSE]
  /\ SeqInTrack = [i \in 1..n |-> 0]
  /\ canRead = [i \in 1..n |-> FALSE]
  /\ hasRaw = [i \in 1..n |-> FALSE]
  /\ Ring = 1
  /\ IDRing = 0
  /\ Size = n
  /\ GOP = 0
  /\ idrCount = 0
  /\ MoveCount = 0
  /\ wpc = "write"
  /\ lastKey = -1
  /\ spaced = TRUE
  /\ lastOp = "none"
  /\ removed = {}
  /\ ceilingHit = FALSE

InitReaders ==
  /\ rpc = [r \in Readers |-> "idle"]
  /\ cur = [r \in Readers |-> 0]
  /\ lastSeq = [r \in Readers |-> -1]
  /\ streamErr = FALSE
  /\ lastSlot = [r \in Readers |-> 0]
  /\ tick = [r \in Readers |-> FALSE]
  /\ cbFailed = [r \in Readers |-> FALSE]

InitConfig(avcc, flv, codec) ==
  /\ EnableAVCC = avcc
  /\ EnableFLV = flv
  /\ CodecID = codec
  /\ Value = EmptyValue
  /\ Last = [frame |-> EmptyValue, IFrame |-> FALSE, kind |-> "none",
             given |-> <<>>]
  /\ input = <<>>
  /\ spans = <<>>
  /\ copy = EmptyCopy
  /\ entry = [kind |-> "none", err |-> FALSE, errSeen |-> FALSE]

\* A Track created with InitSize slots, fed any stream of MaxFrames frames
InitSmall == InitRing(InitSize) /\ budget = MaxFrames /\ gap = 1

\* A Track created at the size ceiling (no code of video.go raises Size, so
\* this is how Size < 256 in Flush comes to be false), fed a stream whose
\* keyframes are at least RingCeiling frames apart
InitCeiling ==
  InitRing(RingCeiling) /\ budget = RingCeiling + MaxFrames /\ gap = RingCeiling

\* ------------------------------------------------------------ the writer
\* One ingest call assembles one access unit in the current slot. The codec's
\* WriteSlice marks the Frame a keyframe when key is set and a slice was
\* appended, and then calls ComputeGOP; the caller calls Flush afterwards.
IngestValue(key, v, frame, sp, kind, e) ==
  LET any == v.Raw # <<>>
      k == key /\ any
  IN  /\ wpc = "write"
      /\ any => MoveCount < budget
      /\ k => (lastKey = -1 \/ MoveCount - lastKey >= gap)
      /\ Value' = v
      /\ input' = frame
      /\ spans' = sp
      /\ entry' = [entry EXCEPT !.kind = kind, !.err = e]
      /\ IFrame' = IF any THEN [IFrame EXCEPT ![Ring] = k] ELSE IFrame
      /\ hasRaw' = IF any THEN [hasRaw EXCEPT ![Ring] = TRUE] ELSE hasRaw
      /\ wpc' = IF k THEN "gop" ELSE "flush"
      /\ lastKey' = IF k THEN MoveCount ELSE lastKey
      /\ spaced' = (spaced /\ (k /\ lastKey # -1 => MoveCount - lastKey >= 6))
      /\ lastOp' = "write"
      /\ UNCHANGED <<order, unlinked, SeqInTrack, canRead, Ring, IDRing, Size,
                     GOP, idrCount, MoveCount, budget, gap, removed, ceilingHit,
                     readerVars, tsVars, unknowVars, EnableAVCC, EnableFLV, CodecID, Last,
                     copy>>

\* Ingest by Video.WriteAnnexB
Ingest(key, pts, dts, frame, sp) ==
  IngestValue(key, WriteAnnexBFrame(Value, pts, dts, frame), frame, sp,
              "annexb", FALSE)

\* Video.WriteAVCC(ts, frame) on the Frame v: Media.WriteAVCC keeps the bytes
\* and sets DTS = ts * 90 and PTS = (ts + CTS) * 90, the CTS read from bytes
\* 2..4 of the frame; then the NALUs are read from frame[5:]
WriteAVCCFrame(v, ts, frame) ==
  LET r == ReadNalus(v.Raw, SubSeq(frame, 6, Len(frame)), NaluLenSize)
  IN  [value |-> [v EXCEPT !.Raw = r.Raw, !.AVCC = @ \o frame,
                           !.PTS = (ts + ReadBE(SubSeq(frame, 3, 5))) * 90,
                           !.DTS = ts * 90],
       err |-> r.err]

\* Ingest by Video.WriteAVCC; the codec's WriteAVCC marks the Frame a keyframe
\* from the frame type in the high four bits of the first byte
IngestAVCC(ts, frame) ==
  LET r == WriteAVCCFrame(Value, ts, frame)
  IN  IngestValue(frame[1] \div 16 = 1, r.value, frame, <<>>, "avcc", r.err)

\* An access unit of one NALU: a keyframe, a non-keyframe, or a call that
\* leaves the Frame without NALU payload
WriteFrame(kind) ==
  IF kind = "empty" THEN Ingest(FALSE, 0, 0, <<>>, <<>>)
  ELSE Ingest(kind = "key", 0, 0, <<1>>, << <<1>> >>)

\* Video.WriteAnnexB(pts, dts, frame), frame composed of the spans sp with a
\* start code of lead bytes in front (0: none) and of d[k] bytes after span k
WriteAnnexB(key, pts, dts, lead, sp, d) ==
  Ingest(key, pts, dts, Delimiter(lead) \o JoinSpans(sp, d), sp)

\* Video.ComputeGOP. The sequence numbers are uint32 counters of the frames
\* delegated; a run of the model stays far below their wrap-around, and the
\* keyframe's number never exceeds the current frame's, so the subtraction is
\* the plain one.
ComputeGOP ==
  /\ wpc = "gop"
  /\ LET gop == IF IDRing # 0 THEN SeqInTrack[Ring] - SeqInTrack[IDRing] ELSE GOP
         l == Size - gop - GopMargin
         shrink == IDRing # 0 /\ l > ShrinkThreshold
         gone == IF shrink THEN UnlinkGone(order, Ring, l) ELSE <<>>
         cut == shrink /\ l % Len(order) # 0
     IN  /\ GOP' = gop
         /\ Size' = IF shrink THEN Size - l ELSE Size
         /\ order' = IF shrink THEN UnlinkKept(order, Ring, l) ELSE order
         /\ unlinked' = IF cut THEN Append(unlinked, gone) ELSE unlinked
         /\ removed' = IF cut THEN Range(gone) ELSE {}
         \* Do hands each visited Frame to the callback by value: the count is
         \* taken from it, and the Reset of the copy changes no slot
         /\ idrCount' = idrCount + 1 - Cardinality({s \in Range(gone) : IFrame[s]})
         /\ lastOp' = IF shrink THEN "shrink" ELSE "gop"
  /\ IDRing' = Ring
  /\ wpc' = "flush"
  /\ UNCHANGED <<IFrame, SeqInTrack, canRead, hasRaw, Ring, MoveCount, budget,
                 gap, lastKey, spaced, ceilingHit, readerVars, tsVars, unknowVars, nalVars>>

\* AVRing.Step, reached from Media.Flush: the write cursor moves to the next
\* slot, which is reset and numbered; the slot left behind becomes readable.
\* ord is the ring and grown the number of slots Flush has just linked in.
Step(ord, grown) ==
  LET last == Ring
      c == NextOf(ord, unlinked, Ring)
      n == Len(IFrame) + grown
      ext(g, v) == [i \in 1..n |-> IF i \in DOMAIN g THEN g[i] ELSE v]
  IN  /\ order' = ord
      /\ IFrame' = ext(IFrame, FALSE)
      /\ Ring' = c
      /\ MoveCount' = MoveCount + 1
      /\ SeqInTrack' = [ext(SeqInTrack, 0) EXCEPT ![c] = MoveCount + 1]
      /\ hasRaw' = [ext(hasRaw, FALSE) EXCEPT ![c] = FALSE]
      /\ canRead' = [[ext(canRead, FALSE) EXCEPT ![c] = FALSE] EXCEPT ![last] = TRUE]

MustGrow_Never(nextI) == FALSE

MustGrow_CountZero(nextI) == nextI /\ idrCount = 0 /\ Size < RingCeiling

\* Video.Flush, lines 126-129: the slot the next write lands on holds a
\* keyframe, it is the only one counted, and the ring is below the ceiling
MustGrow(nextI) == nextI /\ idrCount = 1 /\ Size < RingCeiling

NoMedia_Never(v) == FALSE

\* video.go:101 the Frame v holds no NALU slice
NoMedia(v) == v.Raw = <<>>

BuildAVCC_Always(v) == TRUE

\* video.go:106 whether Flush builds the AVCC bytes of the Frame v
BuildAVCC(v) == v.AVCC = <<>> /\ (EnableAVCC \/ EnableFLV)

\* Video.Flush
Flush ==
  /\ wpc = "flush"
  /\ wpc' = "write"
  /\ input' = <<>>
  /\ spans' = <<>>
  /\ entry' = [kind |-> "none", err |-> FALSE,
               errSeen |-> entry.errSeen \/ entry.err]
  /\ IF NoMedia(Value)
       THEN \* no media data: the Frame is reset and nothing is inserted
            /\ lastOp' = "skip"
            /\ Value' = EmptyValue
            /\ UNCHANGED <<order, IFrame, SeqInTrack, canRead, hasRaw, Ring,
                           idrCount, MoveCount, ceilingHit, Last>>
       ELSE LET nextI == IFrame[NextOf(order, unlinked, Ring)]
                grow == MustGrow(nextI)
                avcc == IF BuildAVCC(Value)
                          THEN CompleteAVCC(Value, CodecID, IFrame[Ring])
                          ELSE Value.AVCC
                flv == Value.FLV \/ EnableFLV
            IN  /\ Last' = [frame |-> [Value EXCEPT !.AVCC = avcc, !.FLV = flv],
                            IFrame |-> IFrame[Ring], kind |-> entry.kind,
                            given |-> Value.AVCC]
                /\ Value' = EmptyValue
                /\ idrCount' = IF nextI /\ idrCount # 1
                                 THEN idrCount - 1 ELSE idrCount
                /\ lastOp' = IF grow THEN "grow" ELSE "step"
                /\ ceilingHit' = (ceilingHit \/
                                  (nextI /\ idrCount = 1 /\ Size >= RingCeiling))
                /\ IF grow
                     THEN Step(LinkIn(order, Ring,
                                      NewRing(Len(IFrame) + 1, GrowBy)), GrowBy)
                     ELSE Step(order, 0)
  /\ UNCHANGED <<unlinked, IDRing, Size, GOP, budget, gap, lastKey, spaced,
                 removed, readerVars, tsVars, unknowVars, EnableAVCC, EnableFLV, CodecID,
                 copy>>

\* Video.WriteAVCC(ts, frame) on a Track created afresh, frame being the AVCC
\* bytes memoized in the Frame the latest Flush inserted. Media.WriteAVCC
\* keeps the bytes and sets DTS = ts * 90, PTS = (ts + CTS) * 90, the CTS read
\* from bytes 2..4 of the frame.
WriteAVCC(ts) ==
  /\ wpc = "write"
  /\ ~copy.done
  /\ Len(Last.frame.AVCC) >= 5
  /\ LET frame == Last.frame.AVCC
         r == ReadNalus(<<>>, SubSeq(frame, 6, Len(frame)), NaluLenSize)
     IN  copy' = [done |-> TRUE, Raw |-> r.Raw, AVCC |-> frame,
                  PTS |-> (ts + ReadBE(SubSeq(frame, 3, 5))) * 90,
                  DTS |-> ts * 90, err |-> r.err]
  /\ UNCHANGED <<ringVars, readerVars, tsVars, unknowVars, EnableAVCC, EnableFLV, CodecID,
                 Value, Last, input, spans, entry>>

\* ----------------------------------------------------------- the readers
\* Video.ReadRing, at the start of Play: a cursor on the last keyframe's slot
ReadRing(r) ==
  /\ rpc[r] = "idle"
  /\ IDRing # 0
  /\ rpc' = [rpc EXCEPT ![r] = "read"]
  /\ cur' = [cur EXCEPT ![r] = IDRing]
  /\ UNCHANGED <<ringVars, lastSeq, streamErr, lastSlot, tick, cbFailed,
                 tsVars, unknowVars, nalVars>>

\* AVRing.Read returning the Frame at the cursor: the slot has been finalized,
\* or the stream has reported an error
Read(r) ==
  /\ rpc[r] = "read"
  /\ canRead[cur[r]] \/ streamErr
  /\ rpc' = [rpc EXCEPT ![r] = "got"]
  /\ UNCHANGED <<ringVars, cur, lastSeq, streamErr, lastSlot, tick, cbFailed,
                 tsVars, unknowVars, nalVars>>

StreamOK_Always == TRUE

\* video.go:145 the loop condition of Play, vt.Stream.Err() == nil
StreamOK == ~streamErr

\* The loop condition of Play and, when it holds, the callback receiving the
\* Frame; failed is whether the callback returns an error
OnVideo(r, failed) ==
  /\ rpc[r] = "got"
  /\ IF ~StreamOK
       THEN /\ rpc' = [rpc EXCEPT ![r] = "done"]
            /\ UNCHANGED <<lastSeq, lastSlot, tick, cbFailed>>
       ELSE /\ lastSeq' = [lastSeq EXCEPT ![r] = SeqInTrack[cur[r]]]
            /\ lastSlot' = [lastSlot EXCEPT ![r] = cur[r]]
            /\ tick' = [tick EXCEPT ![r] = ~@]
            /\ cbFailed' = [cbFailed EXCEPT ![r] = failed]
            /\ rpc' = [rpc EXCEPT ![r] = IF failed THEN "done" ELSE "move"]
  /\ UNCHANGED <<ringVars, cur, streamErr, tsVars, unknowVars, nalVars>>

\* RingBuffer.MoveNext on the reader's clone
MoveNext(r) ==
  /\ rpc[r] = "move"
  /\ rpc' = [rpc EXCEPT ![r] = "read"]
  /\ cur' = [cur EXCEPT ![r] = NextOf(order, unlinked, cur[r])]
  /\ UNCHANGED <<ringVars, lastSeq, streamErr, lastSlot, tick, cbFailed,
                 tsVars, unknowVars, nalVars>>

\* The stream reports an error (it is closed or times out); it stays so
StreamError ==
  /\ ~streamErr
  /\ streamErr' = TRUE
  /\ UNCHANGED <<ringVars, rpc, cur, lastSeq, lastSlot, tick, cbFailed,
                 tsVars, unknowVars, nalVars>>

\* -------------------------------------------------------------- MemoryTs
\* mpegts.WritePESHeader: the bytes it writes. Start code, stream id and
\* length (6), two flag bytes and the header data length (3), then the header
\* data (PTS, or PTS and DTS)
PesHeaderLen(hdl) == 9 + hdl

\* mpegts.WriteTsHeader: the bytes it writes. The 4-byte TS header; with an
\* adaptation field its length byte, and if that is not zero the flags byte
\* and, with the PCR flag, the 6-byte PCR
TsHeaderLen(afc, afl, pcrFlag) ==
  4 + (IF afc >= 2
         THEN 1 + (IF afl > 0 THEN 1 + (IF pcrFlag THEN 6 ELSE 0) ELSE 0)
         ELSE 0)

StartCodeOK_Any(prefix) == TRUE

\* part_000:28
StartCodeOK(prefix) == prefix = StartCode

NextCounter_NoWrap(c) == c + 1

\* part_000:60-61
NextCounter(c) == (c + 1) % CounterModulus

Min(a, b) == IF a < b THEN a ELSE b
Max(a, b) == IF a > b THEN a ELSE b

\* One pass of the loop of WritePESPacket (part_000:36-122), for the i-th TS
\* packet: rem bytes of pesBuffers are left, pesLen is pesPktLength on entry.
TsPacket(i, rem, pesLen, c, pid, key, hdl) ==
  LET pesHdr == IF i = 0 THEN PesHeaderLen(hdl) ELSE 0
      pesPktLength == IF i = 0 THEN pesHdr + rem ELSE pesLen
      keyFirst == i = 0 /\ key
      stuff == pesPktLength < TS_PACKET_SIZE - 4
      afc == IF stuff \/ keyFirst THEN 3 ELSE 1
      afl == IF stuff THEN (TS_PACKET_SIZE - 4 - 1 - pesPktLength) % 256
             ELSE IF keyFirst THEN 7 ELSE 0
      tsStuffingLength == IF stuff /\ afl >= 1 THEN afl - 1 ELSE 0
      written == TsHeaderLen(afc, afl, keyFirst)
      tsHeaderLength == written + tsStuffingLength
      tsPayloadLength == TS_PACKET_SIZE - tsHeaderLength
      copied == Max(0, Min(tsPayloadLength, rem))
  IN  [pid |-> pid, cc |-> c, pusi |-> IF i = 0 THEN 1 ELSE 0,
       afc |-> afc, afl |-> afl, pcr |-> keyFirst, left |-> rem,
       pesPktLength |-> pesPktLength, copied |-> copied,
       len |-> pesHdr + written + copied]

RECURSIVE PesLoop(_, _, _, _, _, _, _)
\* The loop of WritePESPacket from its i-th pass on: the packets pushed to the
\* list, the counter left in the frame context, and the error returned
PesLoop(i, rem, pesLen, c, pid, key, hdl) ==
  IF rem = 0 THEN [pkts |-> <<>>, cc |-> c, err |-> "nil"]
  ELSE LET pk == TsPacket(i, rem, pesLen, c, pid, key, hdl)
       IN  IF pk.len # TS_PACKET_SIZE
             THEN [pkts |-> <<pk>>, cc |-> NextCounter(c), err |-> "size"]
             ELSE LET rest == PesLoop(i + 1, rem - pk.copied, pk.pesPktLength,
                                      NextCounter(c), pid, key, hdl)
                  IN  [pkts |-> <<pk>> \o rest.pkts, cc |-> rest.cc,
                       err |-> rest.err]

\* No frame delegated yet
NoPacket ==
  [StreamID |-> "none", PacketStartCodePrefix |-> 0, PesPacketLength |-> 0,
   PesHeaderDataLength |-> 0, Buffers |-> <<>>]

RECURSIVE SizeOfBuffers(_)
\* util.SizeOfBuffers
SizeOfBuffers(bufs) ==
  IF bufs = <<>> THEN 0 ELSE bufs[1][2] + SizeOfBuffers(Tail(bufs))

InitTs ==
  /\ cc = [p \in PIDs |-> 0]
  /\ bll = 0
  /\ call = [pid |-> 0, key |-> FALSE, prefix |-> StartCode, hdl |-> 0, size |-> 0]
  /\ pkts = <<>>
  /\ err = "nil"
  /\ packet = NoPacket
  /\ sent = [p \in PIDs |-> 0]

\* MemoryTs.WritePESPacket(frame, packet): frame carries pid, its counter and
\* the keyframe flag; packet the header's prefix and header data length, and
\* size bytes of payload buffers
WritePESPacket(pid, key, prefix, hdl, size) ==
  /\ bll < MaxPackets
  /\ LET r == IF ~StartCodeOK(prefix)
                THEN [pkts |-> <<>>, cc |-> cc[pid], err |-> "startcode"]
                ELSE PesLoop(0, size, 0, cc[pid], pid, key, hdl)
     IN  /\ cc' = [cc EXCEPT ![pid] = r.cc]
         /\ pkts' = r.pkts
         /\ err' = r.err
         /\ bll' = bll + Len(r.pkts)
         /\ sent' = [sent EXCEPT ![pid] = @ + Len(r.pkts)]
  /\ call' = [pid |-> pid, key |-> key, prefix |-> prefix, hdl |-> hdl,
              size |-> size]
  /\ UNCHANGED <<ringVars, readerVars, nalVars, unknowVars>>

\* A caller's own WritePESPacket call, with a packet no frame writer built
WritePES(pid, key, prefix, hdl, size) ==
  /\ WritePESPacket(pid, key, prefix, hdl, size)
  /\ packet' = NoPacket

\* MemoryTs.WriteAudioFrame for an access unit of len bytes; pid and key are
\* the caller's MpegtsPESFrame context
WriteAudioFrame(pid, key, len) ==
  LET pktLength == ADTSLen + len + 8
      bufs == << <<"adts", ADTSLen>>, <<"au", len>> >>
  IN  /\ packet' = [StreamID |-> "audio", PacketStartCodePrefix |-> StartCode,
                    PesPacketLength |-> pktLength % 65536,
                    PesHeaderDataLength |-> 5, Buffers |-> bufs]
      /\ WritePESPacket(pid, key, StartCode, 5, SizeOfBuffers(bufs))

\* codec.NALU_AUD_BYTE (6 bytes) when two parameter sets are given, else
\* codec.AudNalu (7 bytes)
AudLen(n) == IF n = 2 THEN 6 ELSE 7

PktLength_NoEscape(size) == size + 10 + 3

\* part_000:158-161
PktLength(size) == IF size + 10 + 3 > 65535 THEN 0 ELSE size + 10 + 3

\* MemoryTs.WriteVideoFrame for a frame of len Annex-B bytes with the
\* parameter sets ps; the caller's context carries the frame's keyframe flag
WriteVideoFrame(pid, iframe, ps, len) ==
  LET bufs == << <<"aud", AudLen(ps.n)>> >>
              \o (IF iframe THEN << <<"ps", ps.len>> >> ELSE <<>>)
              \o << <<"frame", len>> >>
  IN  /\ packet' = [StreamID |-> "video", PacketStartCodePrefix |-> StartCode,
                    PesPacketLength |-> PktLength(SizeOfBuffers(bufs)) % 65536,
                    PesHeaderDataLength |-> 10, Buffers |-> bufs]
      /\ WritePESPacket(pid, iframe, StartCode, 10, SizeOfBuffers(bufs))

Packetizer ==
  \/ \E pid \in PIDs, key \in BOOLEAN, prefix \in Prefixes,
        hdl \in HeaderDataLengths, size \in PayloadSizes :
          WritePES(pid, key, prefix, hdl, size)
  \/ \E pid \in PIDs, key \in BOOLEAN, len \in AuLengths :
          WriteAudioFrame(pid, key, len)
  \/ \E pid \in PIDs, iframe \in BOOLEAN, ps \in ParamSets, len \in FrameLens :
          WriteVideoFrame(pid, iframe, ps, len)

\* --------------------------------------------------------- UnknowVideo
\* AVCCFrame.IsSequence: the packet type byte is 0
IsSequence(frame) == frame[2] = 0

\* AVCCFrame.VideoCodecID: the low four bits of the first byte
VideoCodecID(frame) == frame[1] % 16

Supported_Any(codecID) == TRUE

\* video.go:186-189 the cases of the switch that build a track
Supported(codecID) == codecID \in {7, 12}

\* NewH264 / NewH265
NewTrack(codecID) == IF codecID = 7 THEN "H264" ELSE "H265"

InitUnknow ==
  /\ VideoTrack = "nil"
  /\ Name = <<>>
  /\ delegated = <<>>
  /\ dropped = 0
  /\ uvcall = [n |-> 0, ts |-> 0, frame |-> <<>>]

\* UnknowVideo.WriteAVCC(ts, frame); Name holds the codec id whose String()
\* became the name
UnknowWriteAVCC(ts, frame) ==
  /\ uvcall.n < MaxUnknowCalls
  /\ uvcall' = [n |-> uvcall.n + 1, ts |-> ts, frame |-> frame]
  /\ IF VideoTrack = "nil"
       THEN IF IsSequence(frame)
              THEN LET codecID == VideoCodecID(frame)
                   IN  /\ Name' = IF Name = <<>> THEN <<codecID>> ELSE Name
                       /\ IF Supported(codecID)
                            THEN /\ VideoTrack' = NewTrack(codecID)
                                 /\ delegated' = Append(delegated,
                                       [to |-> NewTrack(codecID), ts |-> 0,
                                        frame |-> frame])
                                 /\ UNCHANGED dropped
                            ELSE \* logged, the call returns
                                 /\ dropped' = dropped + 1
                                 /\ UNCHANGED <<VideoTrack, delegated>>
              ELSE \* "need sequence frame"
                   /\ dropped' = dropped + 1
                   /\ UNCHANGED <<VideoTrack, Name, delegated>>
       ELSE /\ delegated' = Append(delegated,
                             [to |-> VideoTrack, ts |-> ts, frame |-> frame])
            /\ UNCHANGED <<VideoTrack, Name, dropped>>
  /\ UNCHANGED <<ringVars, readerVars, tsVars, nalVars>>

\* The publisher's next video tag
Unknow == \E ts \in {0, 40}, frame \in VideoTags : UnknowWriteAVCC(ts, frame)

Init ==
  InitSmall /\ InitReaders /\ InitTs /\ InitConfig(TRUE, FALSE, 7) /\ InitUnknow

SpecUnknow == Init /\ [][Unknow]_vars

Writer ==
  \/ \E kind \in {"key", "nonkey", "empty"} : WriteFrame(kind)
  \/ ComputeGOP
  \/ Flush

Reader ==
  \E r \in Readers :
    \/ ReadRing(r)
    \/ Read(r)
    \/ \E failed \in BOOLEAN : OnVideo(r, failed)
    \/ MoveNext(r)

Next == Writer \/ Reader \/ StreamError

Spec == Init /\ [][Next]_vars

\* The Track alone, created small or at the ceiling
InitTrack ==
  /\ (InitSmall \/ InitCeiling) /\ InitReaders /\ InitTs
  /\ InitConfig(TRUE, FALSE, 7) /\ InitUnknow

SpecTrack == InitTrack /\ [][Writer]_vars

\* NALU ingest and AVCC completion: a Track under any configuration is fed
\* NalFrames access units as Annex-B bytes, and what Flush memoizes is fed to
\* a fresh Track
InitNal ==
  /\ InitRing(InitSize) /\ budget = NalFrames /\ gap = 1
  /\ InitReaders /\ InitTs /\ InitUnknow
  /\ \E avcc \in BOOLEAN, flv \in BOOLEAN, codec \in CodecIDs :
       InitConfig(avcc, flv, codec)

\* The caller's next access unit, while the stream has one
IngestAnnexB ==
  /\ wpc = "write"
  /\ MoveCount < budget
  /\ \E key \in BOOLEAN, t \in TimePairs, lead \in {0, 3, 4},
        sp \in SeqsUpTo(SpanSet, 0, MaxSpans) :
        \E d \in [1..(Len(sp) - 1) -> {3, 4}] :
          WriteAnnexB(key, t[1], t[2], lead, sp, d)

\* The caller's next access unit handed over as AVCC bytes
IngestAvccBytes ==
  /\ MoveCount < budget
  /\ \E ts \in {0, 40}, frame \in AvccFrames : IngestAVCC(ts, frame)

Nal ==
  \/ IngestAnnexB
  \/ IngestAvccBytes
  \/ ComputeGOP
  \/ Flush
  \/ WriteAVCC(0)

SpecNal == InitNal /\ [][Nal]_vars

\* The packetizer alone
SpecTs == Init /\ [][Packetizer]_vars

\* ------------------------------------------------------------ the claims

C2_CounterMatchesResidentKeyframes ==
  (spaced /\ wpc = "write" /\ lastOp \in {"step", "grow", "skip"}) =>
     idrCount = Cardinality({s \in Range(order) : IFrame[s] /\ hasRaw[s]})

\* C3: the sequence numbers of the Frames a reader is handed never decrease.
C3_ReaderOrder ==
  [][\A r \in Readers : lastSeq'[r] >= lastSeq[r]]_vars

\* C4: when ComputeGOP has shrunk the ring, no active cursor is on a slot it
\* removed and every active cursor is still on the writer's ring.
C4_ShrinkSparesCursors ==
  lastOp = "shrink" =>
     \A r \in Readers :
        rpc[r] # "idle" => (cur[r] \notin removed /\ cur[r] \in Range(order))

\* C5: every TS packet WritePESPacket appends to the list is exactly 188
\* bytes long, and the size check in the loop never returns its error.
C5_PacketsAre188 ==
  /\ \A k \in 1..Len(pkts) : pkts[k].len = TS_PACKET_SIZE
  /\ err # "size"

\* C6: within one PID the counter carried by successive TS packets is in
\* 0..15 and is the previous packet's counter plus one modulo 16, that is the
\* number of packets of that PID pushed before it, modulo 16; the counter of
\* a PID depends on no other PID's packets.
C6_CounterConsecutive ==
  /\ \A p \in PIDs : cc[p] \in 0..15 /\ cc[p] = sent[p] % 16
  /\ \A k \in 1..Len(pkts) :
        /\ pkts[k].pid = call.pid
        /\ pkts[k].cc \in 0..15
        /\ pkts[k].cc = (sent[call.pid] - Len(pkts) + k - 1) % 16

\* C6 witness: one PID's counter has wrapped past 15 while the other PID has
\* sent packets too, and the latest call pushed a packet
C6_Witness ==
  /\ \E p \in PIDs : sent[p] > 16 /\ \E q \in PIDs \ {p} : sent[q] > 0
  /\ pkts # <<>>

\* C7: a WritePESPacket call whose header's start-code prefix is not 0x000001
\* returns the start-code error, appends no TS packet and leaves every
\* continuity counter as it was.
C7_BadStartCode ==
  [][call'.prefix # StartCode =>
       /\ err' = "startcode"
       /\ pkts' = <<>>
       /\ bll' = bll
       /\ sent' = sent
       /\ cc' = cc]_vars

\* C7 witness: a call with a wrong prefix and payload to send has returned,
\* after earlier calls had pushed packets and advanced its PID's counter
C7_Witness ==
  /\ call.prefix # StartCode
  /\ call.size > 0
  /\ err = "startcode"
  /\ bll > 0
  /\ cc[call.pid] > 0

C9_RoundTrip ==
  (copy.done /\ Last.kind = "annexb") =>
    (copy.Raw = Last.frame.Raw /\ ~copy.err)

\* C9 witness: the round trip was made on a Frame of three NALUs, one of them
\* longer than one byte
C9_Witness ==
  /\ copy.done
  /\ Last.kind = "annexb"
  /\ Len(Last.frame.Raw) = 3
  /\ \E k \in 1..3 : Len(Last.frame.Raw[k]) > 1
  /\ Len(copy.Raw) = 3

RECURSIVE NalusLaidOut(_, _)
\* bytes is, for each NALU in order, its length in 4 big-endian bytes and then
\* its bytes
NalusLaidOut(bytes, nalus) ==
  IF nalus = <<>> THEN bytes = <<>>
  ELSE LET n == Len(nalus[1])
       IN  /\ Len(bytes) >= 4 + n
           /\ bytes[1] * 16777216 + bytes[2] * 65536 + bytes[3] * 256 + bytes[4] = n
           /\ SubSeq(bytes, 5, 4 + n) = nalus[1]
           /\ NalusLaidOut(SubSeq(bytes, 5 + n, Len(bytes)), Tail(nalus))

\* The AVCC bytes memoized in the flushed Frame: codec id plus 0x10 (keyframe)
\* or 0x20, then the byte second, then (PTS - DTS) / 90 in three big-endian
\* bytes (its low 24 bits; stated for PTS >= DTS), then the NALUs; an H.264
\* keyframe with pts = dts = 0 begins 17, second, 00 00 00
AvccLayout(second) ==
  (Last.frame.AVCC # <<>> /\ Last.given = <<>>) =>
    LET a == Last.frame.AVCC
        f == Last.frame
    IN  /\ Len(a) >= 5
        /\ a[1] = CodecID + (IF Last.IFrame THEN 16 ELSE 32)
        /\ a[2] = second
        /\ f.PTS >= f.DTS =>
             a[3] * 65536 + a[4] * 256 + a[5] = ((f.PTS - f.DTS) \div 90) % 16777216
        /\ NalusLaidOut(SubSeq(a, 6, Len(a)), f.Raw)
        /\ (CodecID = 7 /\ Last.IFrame /\ f.PTS = 0 /\ f.DTS = 0) =>
             SubSeq(a, 1, 5) = <<23, second, 0, 0, 0>>

\* C10 (as amended): the AVCC encoding built by Flush has the layout above
\* with second byte 1, so the H.264 keyframe at pts = dts = 0 begins with
\* 17 01 00 00 00.
C10_AvccLayout == AvccLayout(1)

\* C10 witness: Flush has built the AVCC bytes of an H.264 keyframe of three
\* NALUs with pts = dts = 0
C10_Witness ==
  /\ Last.frame.AVCC # <<>>
  /\ Last.given = <<>>
  /\ CodecID = 7
  /\ Last.IFrame
  /\ Len(Last.frame.Raw) = 3
  /\ Last.frame.PTS = 0 /\ Last.frame.DTS = 0

\* C10 as stated: the same layout with second byte 0, the keyframe beginning
\* with 17 00 00 00 00.
C10_Original == AvccLayout(0)

\* C11: for every audio access unit of L bytes WriteAudioFrame hands to
\* WritePESPacket a packet with prefix 0x000001, a length field of 7 + L + 8
\* and the 7-byte ADTS header followed by the access unit as payload.
C11_AudioPesLength ==
  packet.StreamID = "audio" =>
    /\ packet.PacketStartCodePrefix = 1
    /\ Len(packet.Buffers) = 2
    /\ packet.Buffers[1] = <<"adts", 7>>
    /\ packet.Buffers[2][1] = "au"
    /\ packet.PesPacketLength = 7 + packet.Buffers[2][2] + 8
    /\ call.prefix = 1 /\ call.size = 7 + packet.Buffers[2][2]

\* C12: WriteVideoFrame sets the length field to the constructed Annex-B
\* length plus 13 when that is at most 0xFFFF and to 0 when it is more; the
\* field never holds a truncated length.
C12_VideoPesLength ==
  packet.StreamID = "video" =>
    LET total == SizeOfBuffers(packet.Buffers)
    IN  /\ total + 13 <= 65535 => packet.PesPacketLength = total + 13
        /\ total + 13 > 65535 => packet.PesPacketLength = 0
        /\ call.size = total

\* C12 witness: a keyframe whose constructed length plus 13 is past 0xFFFF by
\* more than a byte was delegated, and one of exactly 0xFFFF can be (the model
\* holds the latest call only)
C12_Witness ==
  /\ packet.StreamID = "video"
  /\ SizeOfBuffers(packet.Buffers) + 13 > 65536
  /\ Len(packet.Buffers) = 3
  /\ packet.PesPacketLength = 0

C14_FlagsGateEncodings ==
  Last.kind # "none" =>
    /\ Last.given = <<>> =>
          ((Last.frame.AVCC # <<>>) <=> (EnableAVCC \/ EnableFLV))
    /\ Last.given # <<>> => Last.frame.AVCC = Last.given
    /\ Last.frame.FLV <=> EnableFLV

\* a Frame flushed with EnableFLV alone carries both encodings, and a Frame
\* that arrived as AVCC bytes keeps them
C14_Witness ==
  /\ Last.kind = "annexb"
  /\ ~EnableAVCC /\ EnableFLV
  /\ Last.frame.AVCC # <<>>
  /\ Last.frame.FLV

\* C14 as stated: the AVCC bytes are built exactly when EnableAVCC is set and
\* the FLV encoding exactly when EnableFLV is set, each flag on its own.
C14_Original ==
  Last.kind # "none" =>
    /\ Last.given = <<>> => ((Last.frame.AVCC # <<>>) <=> EnableAVCC)
    /\ Last.given # <<>> => Last.frame.AVCC = Last.given
    /\ Last.frame.FLV <=> EnableFLV

\* the PES bytes still to be sent when packet pk was built: the payload bytes
\* left, and on the first packet the PES header as well
PesBytesLeft(pk) ==
  pk.left + (IF pk.pusi = 1 THEN PesHeaderLen(call.hdl) ELSE 0)

\* C15: every TS packet WritePESPacket builds with fewer than 184 PES bytes
\* still to be sent carries adaptation-field control 3 and the adaptation
\* field length 188 - 4 - 1 - (bytes still to be sent); a packet with at least
\* 184 bytes to send carries no padding; and a PES that spans several packets
\* ends with such a padded last packet, as a PES that fits in one packet does.
C15_PaddingField ==
  (call.prefix = StartCode /\ pkts # <<>>) =>
    /\ \A k \in 1..Len(pkts) :
          /\ PesBytesLeft(pkts[k]) < TS_PACKET_SIZE - 4 =>
                /\ pkts[k].afc = 3
                /\ pkts[k].afl = TS_PACKET_SIZE - 4 - 1 - PesBytesLeft(pkts[k])
          /\ PesBytesLeft(pkts[k]) >= TS_PACKET_SIZE - 4 =>
                (pkts[k].afc = 3 => (pkts[k].pcr /\ pkts[k].afl = 7))
    /\ PesBytesLeft(pkts[Len(pkts)]) <= TS_PACKET_SIZE - 4

C18_GrowthKeepsKeyframe ==
  [][(/\ wpc = "flush" /\ wpc' = "write" /\ Value.Raw # <<>>
      /\ IFrame[NextOf(order, unlinked, Ring)]
      /\ idrCount = 1 /\ Size < RingCeiling) =>
       LET key == NextOf(order, unlinked, Ring)
           a == AfterIn(order', Ring)
       IN  /\ Len(order') = Len(order) + GrowBy
           /\ \A j \in 1..GrowBy : a[j] \notin Range(order)
           /\ a[GrowBy + 1] = key
           /\ SubSeq(a, GrowBy + 1, Len(a)) = AfterIn(order, Ring)
           /\ IFrame'[key] /\ hasRaw'[key] = hasRaw[key]
           /\ SeqInTrack'[key] = SeqInTrack[key]
           /\ canRead'[key] = canRead[key]
           /\ idrCount' = idrCount
           /\ cur' = cur /\ IDRing' = IDRing
           /\ Ring' = a[1]]_vars

\* C18 witness: the ring has just grown while a reader that is part-way
\* through the cache and the marker both point at slots of the ring
C18_Witness ==
  /\ lastOp = "grow"
  /\ IDRing \in Range(order)
  /\ \E r \in Readers : rpc[r] # "idle" /\ cur[r] \in Range(order)
                          /\ cur[r] # IDRing

\* C19: while UnknowVideo has no concrete track, a WriteAVCC call selects one
\* exactly when its frame is a sequence header of a supported codec, and
\* hands that track the frame; any other call is dropped and leaves it
\* unselected. Once selected the track is never replaced, and every later
\* call is handed to it.
C19_SelectedOnce ==
  /\ [](\A k \in 1..Len(delegated) : delegated[k].to = VideoTrack)
  /\ [][uvcall'.n = uvcall.n + 1 =>
         LET f == uvcall'.frame
             ok == f[2] = 0 /\ f[1] % 16 \in CodecIDs
         IN  /\ (VideoTrack = "nil" /\ ~ok) =>
                   (VideoTrack' = "nil" /\ delegated' = delegated)
             /\ (VideoTrack = "nil" /\ ok) =>
                   /\ VideoTrack' = (IF f[1] % 16 = 7 THEN "H264" ELSE "H265")
                   /\ delegated' = <<[to |-> VideoTrack', ts |-> 0, frame |-> f]>>
             /\ VideoTrack # "nil" =>
                   /\ VideoTrack' = VideoTrack
                   /\ delegated' = Append(delegated, [to |-> VideoTrack,
                                                  ts |-> uvcall'.ts, frame |-> f])]_vars

\* C19 witness: the H265 track was selected after a sequence header of an
\* unsupported codec and a non-sequence frame were dropped, and was later
\* handed an H264 sequence header without being replaced
C19_Witness ==
  /\ VideoTrack = "H265"
  /\ Name = <<2>>
  /\ dropped >= 2
  /\ Len(delegated) >= 2
  /\ delegated[Len(delegated)].frame = <<23, 0>>

\* C20: the Track's Size equals the number of slots linked in the ring after
\* every ComputeGOP and every Flush, and the ring never holds more than
\* RingCeiling + GrowBy - 1 slots.
C20_SizeIsSlotCount ==
  /\ Size = Len(order)
  /\ Len(order) <= RingCeiling + GrowBy - 1

\* C16: after WriteAVCC the Frame holds exactly the NALUs laid out, length
\* then bytes, at the front of frame[5:], in their order; the length error is
\* logged exactly when what follows them is more than a length field and
\* declares a NALU reaching past the end of the buffer, and then nothing of
\* it is appended; without the error at most a length field's worth of bytes
\* is left over. The erroring call leaves the Track awaiting its Flush like
\* any other ingest call.
C16_StopsAtOverrun ==
  (entry.kind = "avcc" /\ wpc # "write") =>
    LET body == SubSeq(input, 6, Len(input))
    IN  /\ Value.AVCC = input
        /\ \E k \in 0..Len(body) :
              LET rest == SubSeq(body, k + 1, Len(body))
              IN  /\ NalusLaidOut(SubSeq(body, 1, k), Value.Raw)
                  /\ IF entry.err
                       THEN /\ Len(rest) > NaluLenSize
                            /\ rest[1] * 16777216 + rest[2] * 65536
                                 + rest[3] * 256 + rest[4] + NaluLenSize
                                 > Len(rest)
                       ELSE Len(rest) <= NaluLenSize

\* C16 witness: a call whose second NALU declares 5 bytes where 2 are left
\* has kept the first NALU alone, on a Track where an earlier call had
\* already logged the error
C16_Witness ==
  /\ entry.kind = "avcc" /\ entry.err /\ entry.errSeen
  /\ Value.Raw = << <<101>> >>
  /\ wpc # "write"

================================================================================
